---- MODULE Spec2Model ----
(***************************************************************************)
(* Polly-API client layer: the four detailed operations (fetch_polls,      *)
(* get_poll_results, register_user, cast_vote), their fail-fast "simple"   *)
(* wrappers, the pagination loop of fetch_all_polls and the results        *)
(* analysis of get_poll_winner / get_poll_statistics.                      *)
(*                                                                         *)
(* The HTTP transport (requests.get / requests.post) is the environment:   *)
(* every send either raises a transport exception or yields a response     *)
(* (status code, body).  A body is either text that is not JSON or a       *)
(* parsed JSON value.                                                      *)
(***************************************************************************)
EXTENDS Integers, Sequences, FiniteSets, TLC

VARIABLES
    pc,         \* "idle" | "fa_call" | "fa_wait" | "done"
    call,       \* the invocation under way: [op |-> ..., arguments]
    sent,       \* requests handed to the transport by this invocation, in order
    inflight,   \* requests sent and not yet answered
    resps,      \* what the transport answered to each request, in order
    pages,      \* fetch_all_polls: result.polls of each successful fetch_polls call
    all_polls,  \* fetch_all_polls: local all_polls
    skip,       \* fetch_all_polls: local skip
    outcome,    \* what the invocation returned or raised ([t |-> "none"] before)
    backend     \* the polls held by the backend that serves GET /polls in
                \* BackendSpec (Spec's transport answers anything: <<>> there)

vars == <<pc, call, sent, inflight, resps, pages, all_polls, skip, outcome, backend>>

----------------------------------------------------------------------------
(* Bounds of the model                                                     *)

MaxPage    == 2   \* longest list body the transport returns to ListPolls
MaxCalls   == 3   \* fetch_all_polls is followed for at most this many calls
MaxOptions == 3   \* longest results list in a poll-results body
MaxVote    == 2   \* vote_count ranges over -MaxVote .. MaxVote
MaxBackend == 5   \* most polls the backend of BackendSpec holds

(* Program constants                                                       *)

HTTP_OK         == 200
LargeLimit      == 100
MaxBatchSize    == 100
ErrorTextLimit  == 200

----------------------------------------------------------------------------
(* Python values                                                           *)

IntArg(n) == [ty |-> "int", n |-> n]
StrArg(s) == [ty |-> "str", s |-> s]      \* s: sequence of characters
NoneArg   == [ty |-> "none"]

IsInt(a) == a.ty = "int"
IsStr(a) == a.ty = "str"

\* Python truthiness of an argument value: not a
ArgTruthy(a) ==
    CASE a.ty = "int"  -> a.n # 0
      [] a.ty = "str"  -> Len(a.s) > 0
      [] a.ty = "none" -> FALSE

(* JSON values, as json() yields them                                      *)

JNull       == [k |-> "null"]
JNum(n)     == [k |-> "num", n |-> n]
JStr(s)     == [k |-> "str", s |-> s]
JList(xs)   == [k |-> "list", items |-> xs]
JDict(d)    == [k |-> "dict", d |-> d]

IsDict(v) == v.k = "dict"
IsList(v) == v.k = "list"
HasKey(v, key) == key \in DOMAIN v.d

\* Python truthiness of a JSON value
JTruthy(v) ==
    CASE v.k = "null" -> FALSE
      [] v.k = "num"  -> v.n # 0
      [] v.k = "str"  -> Len(v.s) > 0
      [] v.k = "list" -> Len(v.items) > 0
      [] v.k = "dict" -> DOMAIN v.d # {}

(* Transport outcomes                                                      *)

TextBody(len) == [json |-> FALSE, len |-> len]
JsonBody(v)   == [json |-> TRUE, val |-> v]

Response(status, body) == [t |-> "resp", status |-> status, body |-> body]
TransportRaise(e)      == [t |-> "raise", exc |-> e]

TransportExceptions == {"Timeout", "ConnectionError", "RequestException"}

(* Results and errors of the operations                                    *)

NoMessage == [m |-> "none"]

Success(data, status) ==
    [t |-> "return", success |-> TRUE, data |-> data,
     error_message |-> NoMessage, status_code |-> status]

Failure(data, msg, status) ==
    [t |-> "return", success |-> FALSE, data |-> data,
     error_message |-> msg, status_code |-> status]

Raise(exc, msg) == [t |-> "raise", exc |-> exc, msg |-> msg]

Return(v) == [t |-> "value", value |-> v]

\* "x or default" on an error message: the message's Python truthiness
MsgTruthy(msg) ==
    CASE msg.m = "none"   -> FALSE
      [] msg.m = "value"  -> JTruthy(msg.v)
      [] OTHER            -> TRUE

Min(a, b) == IF a < b THEN a ELSE b

----------------------------------------------------------------------------
(* What the transport can answer                                           *)

Statuses == {200, 201, 400, 401, 404, 500}

TextLens == {0, 3, 250}   \* lengths of response.text when it is not JSON

DetailValues ==
    { JStr(<<"d">>), JStr(<<>>), JNull, JNum(0), JNum(7), JList(<<JStr(<<"e">>)>>) }

\* bodies an error response (or a misbehaving 200) carries
SmallJson ==
    { JNull, JNum(7), JStr(<<"s">>), JList(<<>>), JDict([other |-> JNull]) }
    \cup { JDict([detail |-> v]) : v \in DetailValues }

SmallBodies ==
    { TextBody(n) : n \in TextLens } \cup { JsonBody(v) : v \in SmallJson }

TransportFailures == { TransportRaise(e) : e \in TransportExceptions }

SeqsUpTo(S, n) == UNION { [1..k -> S] : k \in 0..n }

----------------------------------------------------------------------------
(* Messages                                                                *)

TextMsg(s) == [m |-> "text", text |-> s]

\* HttpErrorMsg taking the detail for the whole message, as the branches of
\* the recognised statuses do
HttpErrorMsg_detail_replaces(base, status, body, limit) ==
    IF body.json /\ IsDict(body.val) /\ HasKey(body.val, "detail")
    THEN [m |-> "value", v |-> body.val.d.detail]
    ELSE [m |-> "http", base |-> base, status |-> status,
          tail |-> IF ~body.json
                   THEN [t |-> "text",
                         len |-> IF limit < 0 THEN body.len ELSE Min(body.len, limit)]
                   ELSE [t |-> "none"]]

\* error_msg built by the "other HTTP errors" branch: base text, then
\* " - detail" or " - response.text[:limit]" (limit < 0: no truncation)
HttpErrorMsg(base, status, body, limit) ==
    [m |-> "http", base |-> base, status |-> status,
     tail |-> IF ~body.json
              THEN [t |-> "text",
                    len |-> IF limit < 0 THEN body.len ELSE Min(body.len, limit)]
              ELSE IF IsDict(body.val) /\ HasKey(body.val, "detail")
                   THEN [t |-> "detail", v |-> body.val.d.detail]
                   ELSE [t |-> "none"]]

\* error_msg of a recognised status (400 / 401 / 404): the generic text,
\* replaced by error_detail['detail'] when the body is a dict holding it
DomainErrorMsg(generic, body) ==
    IF body.json /\ IsDict(body.val) /\ HasKey(body.val, "detail")
    THEN [m |-> "value", v |-> body.val.d.detail]
    ELSE TextMsg(generic)

\* the three except clauses around the request
TransportErrorMsg(exc) ==
    CASE exc = "Timeout"         -> TextMsg("Request timed out after 30 seconds")
      [] exc = "ConnectionError" -> TextMsg("Failed to connect to the API")
      [] OTHER                   -> TextMsg("Request failed")

ParseErrorMsg == TextMsg("Failed to parse JSON response")

UnknownError == TextMsg("Unknown error")

\* result.error_message or "Unknown error"
OrUnknown(msg) == IF MsgTruthy(msg) THEN msg ELSE UnknownError

Wrapped(prefix, msg) == [m |-> "wrapped", prefix |-> prefix, inner |-> msg]

\* what one operation did: its outcome and the requests it sent
Did(out, reqs) == [out |-> out, sent |-> reqs]

(* Response validation                                                     *)

Digits == {"0", "1", "2", "3", "4", "5", "6", "7", "8", "9"}

IsoDate == <<"2", "0", "2", "4", "-", "0", "1", "-", "0", "2">>

\* datetime.fromisoformat accepts the string (dates YYYY-MM-DD of the model)
is_iso_format(str) ==
    /\ Len(str) = 10
    /\ \A i \in {1, 2, 3, 4, 6, 7, 9, 10} : str[i] \in Digits
    /\ str[5] = "-" /\ str[8] = "-"

\* datetime.fromisoformat(value.replace('Z', '+00:00')): a value that is not
\* a string has no replace (AttributeError), a string that is not a date
\* is a ValueError
parse_created_at(value) ==
    IF value.k # "str" THEN "AttributeError"
    ELSE IF is_iso_format(value.s) THEN "ok"
    ELSE "ValueError"

\* created_at_check catching ValueError only
created_at_check_value_error_only(record) ==
    IF ~HasKey(record, "created_at") THEN [t |-> "ok", warnings |-> {}]
    ELSE LET e == parse_created_at(record.d.created_at) IN
         IF e = "ok" THEN [t |-> "ok", warnings |-> {}]
         ELSE IF e \in {"ValueError"}
         THEN [t |-> "ok", warnings |-> {"Invalid created_at format"}]
         ELSE Raise(e, TextMsg("created_at"))

\* if 'created_at' in record: try ... except (ValueError, AttributeError): warn
created_at_check(record) ==
    IF ~HasKey(record, "created_at") THEN [t |-> "ok", warnings |-> {}]
    ELSE LET e == parse_created_at(record.d.created_at) IN
         IF e = "ok" THEN [t |-> "ok", warnings |-> {}]
         ELSE IF e \in {"ValueError", "AttributeError"}
         THEN [t |-> "ok", warnings |-> {"Invalid created_at format"}]
         ELSE Raise(e, TextMsg("created_at"))

\* the warning w when the condition holds
WarnIf(cond, w) == IF cond THEN {w} ELSE {}

\* some field of the list is not a key of the record
MissingAny(record, fields) == \E f \in fields : ~HasKey(record, f)

\* the field is present and its value is not of the JSON kind
WrongKind(record, field, kind) == HasKey(record, field) /\ record.d[field].k # kind

----------------------------------------------------------------------------
(* poll_fetcher.py                                                         *)

PollA == JDict([id |-> JNum(1), question |-> JStr(<<"A", "b">>)])
PollB == JDict([id |-> JNum(2), question |-> JStr(<<"c">>)])
NotAPoll == JStr(<<"x">>)

\* polls whose created_at is a date, a string that is no date, not a string
PollDated   == JDict([id |-> JNum(5), created_at |-> JStr(IsoDate)])
PollBadDate == JDict([id |-> JNum(6), created_at |-> JStr(<<"x">>)])
PollNumDate == JDict([question |-> JNum(7), created_at |-> JNum(7)])

PollItems == { PollA, PollB, NotAPoll }

DatedPollItems == { PollDated, PollBadDate, PollNumDate }

ListBodies == { JsonBody(JList(p)) : p \in SeqsUpTo(PollItems, MaxPage) }

ListResponses ==
    TransportFailures
    \cup { Response(s, b) : s \in Statuses, b \in SmallBodies }
    \cup { Response(HTTP_OK, b) : b \in ListBodies }
    \cup { Response(HTTP_OK, JsonBody(JList(<<p>>))) : p \in DatedPollItems }

SkipArgs  == { IntArg(n) : n \in {-1, 0, 1} } \cup { StrArg(<<"1">>) }
LimitArgs == { IntArg(n) : n \in {-1, 0, 1, 2, LargeLimit + 1} } \cup { StrArg(<<"1">>) }

\* fetch_polls_validate letting limit = 0 through (limit < 0 for limit <= 0)
fetch_polls_validate_allows_zero(skp, limit) ==
    IF ~IsInt(skp) \/ skp.n < 0
    THEN Raise("ValueError", TextMsg("Skip must be a non-negative integer"))
    ELSE IF ~IsInt(limit) \/ limit.n < 0
    THEN Raise("ValueError", TextMsg("Limit must be a positive integer"))
    ELSE [t |-> "ok", warn |-> limit.n > LargeLimit]

fetch_polls_validate(skp, limit) ==
    IF ~IsInt(skp) \/ skp.n < 0
    THEN Raise("ValueError", TextMsg("Skip must be a non-negative integer"))
    ELSE IF ~IsInt(limit) \/ limit.n <= 0
    THEN Raise("ValueError", TextMsg("Limit must be a positive integer"))
    ELSE [t |-> "ok", warn |-> limit.n > LargeLimit]

fetch_polls_request(skp, limit) ==
    [method |-> "GET", path |-> "/polls", skip |-> skp.n, limit |-> limit.n]

\* the checks on one poll that is a dict: missing fields and created_at
poll_validate(poll) ==
    LET c == created_at_check(poll) IN
    IF c.t = "raise" THEN c
    ELSE [t |-> "ok",
          warnings |->
              WarnIf(MissingAny(poll, {"id", "question", "created_at", "owner_id", "options"}),
                     "missing fields")
              \cup c.warnings]

\* the validation loop: the first poll whose checks raise ends it, if any
RECURSIVE polls_validate(_, _)
polls_validate(items, i) ==
    IF i > Len(items) THEN [t |-> "ok"]
    ELSE IF ~IsDict(items[i]) THEN polls_validate(items, i + 1)
    ELSE IF poll_validate(items[i]).t = "raise" THEN poll_validate(items[i])
    ELSE polls_validate(items, i + 1)

\* the validation loop: a poll that is not a dict is skipped (continue),
\* every other finding is a warning and the poll is appended
validated_polls(items) == SelectSeq(items, IsDict)

fetch_polls_response(t) ==
    IF t.t = "raise"
    THEN Raise("PollFetchError", TransportErrorMsg(t.exc))
    ELSE IF t.status = HTTP_OK
    THEN IF ~t.body.json
         THEN Raise("PollFetchError", ParseErrorMsg)
         ELSE IF ~IsList(t.body.val)
         THEN Raise("PollFetchError", TextMsg("Expected list response"))
         ELSE IF polls_validate(t.body.val.items, 1).t = "raise"
         THEN polls_validate(t.body.val.items, 1)
         ELSE Success(validated_polls(t.body.val.items), t.status)
    ELSE Failure(<<>>,
                 HttpErrorMsg("Failed to fetch polls", t.status, t.body, ErrorTextLimit),
                 t.status)

\* fetch_polls sending the request a second time when the transport raised
fetch_polls_retries(skp, limit, t) ==
    LET v == fetch_polls_validate(skp, limit) IN
    IF v.t = "raise" THEN Did(v, <<>>)
    ELSE IF t.t = "raise"
    THEN Did(fetch_polls_response(t),
             <<fetch_polls_request(skp, limit), fetch_polls_request(skp, limit)>>)
    ELSE Did(fetch_polls_response(t), <<fetch_polls_request(skp, limit)>>)

fetch_polls(skp, limit, t) ==
    LET v == fetch_polls_validate(skp, limit) IN
    IF v.t = "raise" THEN Did(v, <<>>)
    ELSE Did(fetch_polls_response(t), <<fetch_polls_request(skp, limit)>>)

fetch_polls_simple(skp, limit, t) ==
    LET r == fetch_polls(skp, limit, t) IN
    IF r.out.t = "raise" THEN r
    ELSE IF r.out.success THEN Did(Return(r.out.data), r.sent)
    ELSE Did(Raise("PollFetchError",
                   Wrapped("Poll fetch failed: ", OrUnknown(r.out.error_message))),
             r.sent)


(* fetch_all_polls: the pagination loop, one request at a time            *)

\* the poll at position i of the list answering request number c of the loop:
\* the backend hands out every poll once
PagePoll(c, i) ==
    JDict([id |-> JNum(c * (MaxPage + 1) + i), question |-> JStr(<<"A", "b">>)])

\* list bodies answering request c: up to MaxPage entries, each one a poll or
\* an entry that is not a dict
PageBodies(c) ==
    { JsonBody(JList([i \in 1..n |-> IF i \in junk THEN NotAPoll ELSE PagePoll(c, i)])) :
        n \in 0..MaxPage, junk \in SUBSET (1..MaxPage) }

PageResponses(c) ==
    TransportFailures
    \cup { Response(s, b) : s \in Statuses, b \in SmallBodies }
    \cup { Response(HTTP_OK, b) : b \in PageBodies(c) }

BatchArgs ==
    { IntArg(n) : n \in {0 - 1, 0, 1, 2, MaxBatchSize, MaxBatchSize + 1} }
    \cup { StrArg(<<"1">>) }

\* fetch_all_polls_validate refusing the largest batch (>= 100 for > 100)
fetch_all_polls_validate_rejects_100(batch_size) ==
    IF ~IsInt(batch_size)
    THEN Raise("TypeError", TextMsg("'<=' not supported"))
    ELSE IF batch_size.n <= 0 \/ batch_size.n >= MaxBatchSize
    THEN Raise("ValueError", TextMsg("Batch size must be between 1 and 100"))
    ELSE [t |-> "ok"]

\* the guard before the loop; comparing a non-number with 0 is a TypeError
fetch_all_polls_validate(batch_size) ==
    IF ~IsInt(batch_size)
    THEN Raise("TypeError", TextMsg("'<=' not supported"))
    ELSE IF batch_size.n <= 0 \/ batch_size.n > MaxBatchSize
    THEN Raise("ValueError", TextMsg("Batch size must be between 1 and 100"))
    ELSE [t |-> "ok"]

\* fetch_all_polls_step with the short page dropped: break before extend
fetch_all_polls_step_drops_last(result, polls_so_far, skp, batch_size) ==
    IF result.t = "raise"
    THEN [pc |-> "done", all_polls |-> polls_so_far, skip |-> skp, out |-> result]
    ELSE IF ~result.success
    THEN [pc |-> "done", all_polls |-> polls_so_far, skip |-> skp,
          out |-> Raise("PollFetchError",
                        [m |-> "at_skip", skip |-> skp,
                         inner |-> OrUnknown(result.error_message)])]
    ELSE IF Len(result.data) < batch_size
    THEN [pc |-> "done", all_polls |-> polls_so_far, skip |-> skp,
          out |-> Return(polls_so_far)]
    ELSE [pc |-> "fa_call", all_polls |-> polls_so_far \o result.data,
          skip |-> skp + batch_size, out |-> [t |-> "none"]]

\* fetch_all_polls_step advancing by the number of polls received
fetch_all_polls_step_skips_by_len(result, polls_so_far, skp, batch_size) ==
    IF result.t = "raise"
    THEN [pc |-> "done", all_polls |-> polls_so_far, skip |-> skp, out |-> result]
    ELSE IF ~result.success
    THEN [pc |-> "done", all_polls |-> polls_so_far, skip |-> skp,
          out |-> Raise("PollFetchError",
                        [m |-> "at_skip", skip |-> skp,
                         inner |-> OrUnknown(result.error_message)])]
    ELSE IF result.data = <<>>
    THEN [pc |-> "done", all_polls |-> polls_so_far, skip |-> skp,
          out |-> Return(polls_so_far)]
    ELSE IF Len(result.data) < batch_size
    THEN [pc |-> "done", all_polls |-> polls_so_far \o result.data, skip |-> skp,
          out |-> Return(polls_so_far \o result.data)]
    ELSE [pc |-> "fa_call", all_polls |-> polls_so_far \o result.data,
          skip |-> skp + Len(result.data), out |-> [t |-> "none"]]

\* fetch_all_polls_step returning what it has when a page fails
fetch_all_polls_step_partial(result, polls_so_far, skp, batch_size) ==
    IF result.t = "raise" \/ ~result.success
    THEN [pc |-> "done", all_polls |-> polls_so_far, skip |-> skp,
          out |-> Return(polls_so_far)]
    ELSE IF result.data = <<>>
    THEN [pc |-> "done", all_polls |-> polls_so_far, skip |-> skp,
          out |-> Return(polls_so_far)]
    ELSE IF Len(result.data) < batch_size
    THEN [pc |-> "done", all_polls |-> polls_so_far \o result.data, skip |-> skp,
          out |-> Return(polls_so_far \o result.data)]
    ELSE [pc |-> "fa_call", all_polls |-> polls_so_far \o result.data,
          skip |-> skp + batch_size, out |-> [t |-> "none"]]

\* fetch_all_polls_step taking a full page for the last one (<= for <)
fetch_all_polls_step_stops_at_full_page(result, polls_so_far, skp, batch_size) ==
    IF result.t = "raise"
    THEN [pc |-> "done", all_polls |-> polls_so_far, skip |-> skp, out |-> result]
    ELSE IF ~result.success
    THEN [pc |-> "done", all_polls |-> polls_so_far, skip |-> skp,
          out |-> Raise("PollFetchError",
                        [m |-> "at_skip", skip |-> skp,
                         inner |-> OrUnknown(result.error_message)])]
    ELSE IF result.data = <<>>
    THEN [pc |-> "done", all_polls |-> polls_so_far, skip |-> skp,
          out |-> Return(polls_so_far)]
    ELSE IF Len(result.data) <= batch_size
    THEN [pc |-> "done", all_polls |-> polls_so_far \o result.data, skip |-> skp,
          out |-> Return(polls_so_far \o result.data)]
    ELSE [pc |-> "fa_call", all_polls |-> polls_so_far \o result.data,
          skip |-> skp + batch_size, out |-> [t |-> "none"]]

\* the body of the while loop after fetch_polls has answered with result:
\* the next control state and locals, and the outcome when the loop ends
fetch_all_polls_step(result, polls_so_far, skp, batch_size) ==
    IF result.t = "raise"
    THEN [pc |-> "done", all_polls |-> polls_so_far, skip |-> skp, out |-> result]
    ELSE IF ~result.success
    THEN [pc |-> "done", all_polls |-> polls_so_far, skip |-> skp,
          out |-> Raise("PollFetchError",
                        [m |-> "at_skip", skip |-> skp,
                         inner |-> OrUnknown(result.error_message)])]
    ELSE IF result.data = <<>>
    THEN [pc |-> "done", all_polls |-> polls_so_far, skip |-> skp,
          out |-> Return(polls_so_far)]
    ELSE IF Len(result.data) < batch_size
    THEN [pc |-> "done", all_polls |-> polls_so_far \o result.data, skip |-> skp,
          out |-> Return(polls_so_far \o result.data)]
    ELSE [pc |-> "fa_call", all_polls |-> polls_so_far \o result.data,
          skip |-> skp + batch_size, out |-> [t |-> "none"]]

(* search_polls_by_question                                                *)

PollNoQuestion  == JDict([id |-> JNum(3)])
PollNumQuestion == JDict([id |-> JNum(4), question |-> JNum(7)])

SearchItems == PollItems \cup { PollNoQuestion, PollNumQuestion }

SearchResponses ==
    TransportFailures
    \cup { Response(s, b) : s \in Statuses, b \in SmallBodies }
    \cup { Response(HTTP_OK, JsonBody(JList(p))) : p \in SeqsUpTo(SearchItems, MaxPage) }

KeywordArgs ==
    { StrArg(<<>>), StrArg(<<"a">>), StrArg(<<"B">>), StrArg(<<"c">>), NoneArg, IntArg(5) }

\* str.lower() over the alphabet of the model
LowerChar(c) ==
    CASE c = "A" -> "a" [] c = "B" -> "b" [] c = "C" -> "c" [] OTHER -> c

Lower(str) == [i \in 1..Len(str) |-> LowerChar(str[i])]

\* needle in hay, on strings
Contains(needle, hay) ==
    \E i \in 0..(Len(hay) - Len(needle)) : SubSeq(hay, i + 1, i + Len(needle)) = needle

\* question_matches comparing the strings as they are, without lower()
question_matches_case_sensitive(poll, keyword) ==
    /\ HasKey(poll, "question")
    /\ poll.d.question.k = "str"
    /\ Contains(keyword.s, poll.d.question.s)

question_matches(poll, keyword) ==
    /\ HasKey(poll, "question")
    /\ poll.d.question.k = "str"
    /\ Contains(Lower(keyword.s), Lower(poll.d.question.s))

search_polls_by_question(keyword, skp, limit, t) ==
    IF ~ArgTruthy(keyword) \/ ~IsStr(keyword)
    THEN Did(Raise("ValueError", TextMsg("Question keyword must be a non-empty string")), <<>>)
    ELSE LET r == fetch_polls_simple(skp, limit, t) IN
         IF r.out.t = "raise" THEN r
         ELSE Did(Return(SelectSeq(r.out.value, LAMBDA p : question_matches(p, keyword))),
                  r.sent)


----------------------------------------------------------------------------
(* poll_results.py                                                         *)

PollIdArgs == { IntArg(n) : n \in {-1, 0, 1} } \cup { StrArg(<<"1">>), NoneArg }

\* one entry of "results": an option with an integer vote_count, an option
\* without vote_count, an option whose vote_count is not a number, an option
\* with one vote and no text, or an entry that is not a dict
OptionKinds ==
    { [c |-> "votes", v |-> n] : n \in (0 - MaxVote)..MaxVote }
    \cup { [c |-> "missing"], [c |-> "text"], [c |-> "notext"], [c |-> "nondict"] }

MakeOption(kind, id) ==
    CASE kind.c = "votes"   -> JDict([option_id |-> JNum(id), text |-> JStr(<<"t">>),
                                      vote_count |-> JNum(kind.v)])
      [] kind.c = "missing" -> JDict([option_id |-> JNum(id)])
      [] kind.c = "notext"  -> JDict([option_id |-> JNum(id), vote_count |-> JNum(1)])
      [] kind.c = "text"    -> JDict([option_id |-> JNum(id), vote_count |-> JStr(<<"x">>)])
      [] kind.c = "nondict" -> JStr(<<"x">>)

\* option ids run with the order of the response or against it
MakeOptions(kinds, descending) ==
    [i \in 1..Len(kinds) |->
        MakeOption(kinds[i], IF descending THEN Len(kinds) + 1 - i ELSE i)]

ResultsValues ==
    { JList(MakeOptions(ks, desc)) : ks \in SeqsUpTo(OptionKinds, MaxOptions), desc \in BOOLEAN }
    \cup { JNull, JNum(5) }

ResultsBodies ==
    { JsonBody(JDict([poll_id |-> JNum(1), results |-> r])) : r \in ResultsValues }

\* bodies whose poll_id is not the one asked for, or is not a number
OtherPollBodies ==
    { JsonBody(JDict([poll_id |-> p, question |-> JNum(7),
                      results |-> JList(<<MakeOption([c |-> "votes", v |-> 0 - 1], 1)>>)])) :
        p \in { JNum(2), JStr(<<"x">>) } }

ResultsResponses ==
    TransportFailures
    \cup { Response(s, b) : s \in Statuses, b \in SmallBodies }
    \cup { Response(HTTP_OK, b) : b \in ResultsBodies \cup OtherPollBodies }

positive_id_validate(id, what) ==
    IF ~IsInt(id) \/ id.n <= 0
    THEN Raise("ValueError", TextMsg(what))
    ELSE [t |-> "ok"]

get_poll_results_request(poll_id) ==
    [method |-> "GET", path |-> "/polls/{poll_id}/results", poll_id |-> poll_id.n]

\* a 200 body that parsed but is not a dict: "field not in results_data" is
\* a TypeError on null and numbers, and results_data.get an AttributeError
\* on lists and strings; neither is caught
non_dict_error(v) ==
    IF v.k \in {"null", "num"}
    THEN Raise("TypeError", TextMsg("argument is not iterable"))
    ELSE Raise("AttributeError", TextMsg("object has no attribute 'get'"))

\* the checks on one entry of results that is a dict
result_item_warnings(item) ==
    WarnIf(MissingAny(item, {"option_id", "text", "vote_count"}), "missing fields")
    \cup WarnIf(WrongKind(item, "option_id", "num"), "Option ID should be an integer")
    \cup WarnIf(WrongKind(item, "text", "str"), "Text should be a string")
    \cup WarnIf(WrongKind(item, "vote_count", "num"), "Vote count should be an integer")
    \cup WarnIf(HasKey(item, "vote_count") /\ item.d.vote_count.k = "num"
                  /\ item.d.vote_count.n < 0,
                "Vote count should not be negative")

\* the validation of a 200 body that is a dict: warnings only, no statement
\* of it can raise
get_poll_results_validate(results_data, poll_id) ==
    [t |-> "ok",
     warnings |->
         WarnIf(MissingAny(results_data, {"poll_id", "question", "results"}), "missing fields")
         \cup WarnIf(~HasKey(results_data, "poll_id")
                       \/ results_data.d.poll_id # JNum(poll_id.n),
                     "poll_id doesn't match")
         \cup WarnIf(WrongKind(results_data, "poll_id", "num"), "Poll ID should be an integer")
         \cup WarnIf(WrongKind(results_data, "question", "str"), "Question should be a string")
         \cup WarnIf(WrongKind(results_data, "results", "list"),
                     "Results field should be an array")
         \cup IF HasKey(results_data, "results") /\ IsList(results_data.d.results)
              THEN LET items == results_data.d.results.items IN
                   WarnIf(\E i \in 1..Len(items) : ~IsDict(items[i]), "not a dictionary")
                   \cup UNION { result_item_warnings(items[i]) :
                                  i \in { j \in 1..Len(items) : IsDict(items[j]) } }
              ELSE {}]

get_poll_results_response(t, poll_id) ==
    IF t.t = "raise"
    THEN Raise("PollResultsError", TransportErrorMsg(t.exc))
    ELSE IF t.status = HTTP_OK
    THEN IF ~t.body.json
         THEN Raise("PollResultsError", ParseErrorMsg)
         ELSE IF ~IsDict(t.body.val)
         THEN non_dict_error(t.body.val)
         ELSE IF get_poll_results_validate(t.body.val, poll_id).t = "raise"
         THEN get_poll_results_validate(t.body.val, poll_id)
         ELSE Success(t.body.val, t.status)
    ELSE IF t.status = 404
    THEN Failure(JNull, DomainErrorMsg("Poll not found", t.body), t.status)
    ELSE Failure(JNull,
                 HttpErrorMsg("Failed to retrieve poll results", t.status, t.body,
                              ErrorTextLimit),
                 t.status)

get_poll_results(poll_id, t) ==
    LET v == positive_id_validate(poll_id, "Poll ID must be a positive integer") IN
    IF v.t = "raise" THEN Did(v, <<>>)
    ELSE Did(get_poll_results_response(t, poll_id), <<get_poll_results_request(poll_id)>>)

\* get_poll_results_simple without the "Unknown error" default
get_poll_results_simple_no_default(poll_id, t) ==
    LET r == get_poll_results(poll_id, t) IN
    IF r.out.t = "raise" THEN r
    ELSE IF r.out.success /\ r.out.data # JNull THEN Did(Return(r.out.data), r.sent)
    ELSE Did(Raise("PollResultsError",
                   Wrapped("Poll results retrieval failed: ", r.out.error_message)),
             r.sent)

get_poll_results_simple(poll_id, t) ==
    LET r == get_poll_results(poll_id, t) IN
    IF r.out.t = "raise" THEN r
    ELSE IF r.out.success /\ r.out.data # JNull THEN Did(Return(r.out.data), r.sent)
    ELSE Did(Raise("PollResultsError",
                   Wrapped("Poll results retrieval failed: ",
                           OrUnknown(r.out.error_message))),
             r.sent)

\* 'results' not in results_data or not results_data['results']
no_results(data) == ~HasKey(data, "results") \/ ~JTruthy(data.d.results)


(* get_poll_winner                                                         *)

\* winner_scan replacing the winner on a tie (>= for >): the last maximum wins
RECURSIVE winner_scan_last_wins(_, _, _, _)
winner_scan_last_wins(options, i, max_votes, winners) ==
    IF i > Len(options)
    THEN [err |-> FALSE, max_votes |-> max_votes, winners |-> winners]
    ELSE LET option == options[i] IN
         IF ~IsDict(option) \/ ~HasKey(option, "vote_count")
         THEN winner_scan_last_wins(options, i + 1, max_votes, winners)
         ELSE IF option.d.vote_count.k # "num"
         THEN [err |-> TRUE, max_votes |-> max_votes, winners |-> winners]
         ELSE LET vote_count == option.d.vote_count.n IN
              IF vote_count >= max_votes
              THEN winner_scan_last_wins(options, i + 1, vote_count, <<i>>)
              ELSE winner_scan_last_wins(options, i + 1, max_votes, winners)

\* the for loop of get_poll_winner from entry i on: max_votes, winners (as
\* positions in the response) and whether a comparison raised TypeError
RECURSIVE winner_scan(_, _, _, _)
winner_scan(options, i, max_votes, winners) ==
    IF i > Len(options)
    THEN [err |-> FALSE, max_votes |-> max_votes, winners |-> winners]
    ELSE LET option == options[i] IN
         IF ~IsDict(option) \/ ~HasKey(option, "vote_count")
         THEN winner_scan(options, i + 1, max_votes, winners)
         ELSE IF option.d.vote_count.k # "num"
         THEN [err |-> TRUE, max_votes |-> max_votes, winners |-> winners]
         ELSE LET vote_count == option.d.vote_count.n IN
              IF vote_count > max_votes
              THEN winner_scan(options, i + 1, vote_count, <<i>>)
              ELSE IF vote_count = max_votes /\ vote_count > 0
              THEN winner_scan(options, i + 1, max_votes, Append(winners, i))
              ELSE winner_scan(options, i + 1, max_votes, winners)

\* the option returned: the element of the response at position pos (a sole
\* winner is logged with winners[0]['text'] first, a KeyError without text)
WinnerAt(options, pos) == [k |-> "option", pos |-> pos, option |-> options[pos]]

\* get_poll_winner_of without the max_votes == 0 test, the scan keeping
\* every option that reaches max_votes: an option with no vote can win
get_poll_winner_of_zero_wins(results_data) ==
    IF no_results(results_data)
    THEN Return(JNull)
    ELSE IF ~IsList(results_data.d.results)
    THEN Raise("TypeError", TextMsg("object is not iterable"))
    ELSE LET scan == winner_scan(results_data.d.results.items, 1, 0 - 1, <<>>) IN
         IF scan.err
         THEN Raise("TypeError", TextMsg("'>' not supported"))
         ELSE IF scan.winners = <<>>
         THEN Return(JNull)
         ELSE IF Len(scan.winners) = 1
                 /\ ~HasKey(results_data.d.results.items[scan.winners[1]], "text")
         THEN Raise("KeyError", TextMsg("'text'"))
         ELSE Return(WinnerAt(results_data.d.results.items, scan.winners[1]))

get_poll_winner_of(results_data) ==
    IF no_results(results_data)
    THEN Return(JNull)
    ELSE IF ~IsList(results_data.d.results)
    THEN Raise("TypeError", TextMsg("object is not iterable"))
    ELSE LET scan == winner_scan(results_data.d.results.items, 1, 0, <<>>) IN
         IF scan.err
         THEN Raise("TypeError", TextMsg("'>' not supported"))
         ELSE IF scan.winners = <<>> \/ scan.max_votes = 0
         THEN Return(JNull)
         ELSE IF Len(scan.winners) = 1
                 /\ ~HasKey(results_data.d.results.items[scan.winners[1]], "text")
         THEN Raise("KeyError", TextMsg("'text'"))
         ELSE Return(WinnerAt(results_data.d.results.items, scan.winners[1]))

get_poll_winner(poll_id, t) ==
    LET r == get_poll_results_simple(poll_id, t) IN
    IF r.out.t = "raise" THEN r
    ELSE Did(get_poll_winner_of(r.out.value), r.sent)

(* get_poll_statistics                                                     *)

\* option.get('vote_count', 0)
vote_count_of(option) ==
    IF HasKey(option, "vote_count") THEN option.d.vote_count ELSE JNum(0)

\* sum(option.get('vote_count', 0) for option in results): the first entry
\* that is not a dict raises AttributeError, the first vote_count that is
\* not a number raises TypeError
RECURSIVE sum_votes(_, _, _)
sum_votes(options, i, acc) ==
    IF i > Len(options)
    THEN [err |-> "none", total |-> acc]
    ELSE IF ~IsDict(options[i])
    THEN [err |-> "AttributeError", total |-> acc]
    ELSE IF vote_count_of(options[i]).k # "num"
    THEN [err |-> "TypeError", total |-> acc]
    ELSE sum_votes(options, i + 1, acc + vote_count_of(options[i]).n)

\* n / d rounded to the nearest integer, d > 0; a quotient exactly half way
\* goes to the even neighbour
RoundDiv(n, d) ==
    LET q == n \div d
        r == n - q * d
    IN  IF 2 * r < d THEN q
        ELSE IF 2 * r > d THEN q + 1
        ELSE IF q % 2 = 0 THEN q ELSE q + 1

\* percentage_tenths cutting the digits off instead of rounding
percentage_tenths_truncated(vote_count, total_votes) ==
    IF total_votes > 0 THEN (1000 * vote_count) \div total_votes ELSE 0

\* round(vote_count / total_votes * 100, 1) if total_votes > 0 else 0,
\* in tenths of a percent
percentage_tenths(vote_count, total_votes) ==
    IF total_votes > 0 THEN RoundDiv(1000 * vote_count, total_votes) ELSE 0

option_with_percentage(option, pos, total_votes) ==
    [pos        |-> pos,
     option_id  |-> IF HasKey(option, "option_id") THEN option.d.option_id ELSE JNull,
     text       |-> IF HasKey(option, "text") THEN option.d.text ELSE JNull,
     vote_count |-> vote_count_of(option).n,
     percentage |-> percentage_tenths(vote_count_of(option).n, total_votes)]

\* statistics_scan replacing the winner on a tie as well: the last option
\* that reaches max_votes wins
RECURSIVE statistics_scan_last_max(_, _, _, _, _, _)
statistics_scan_last_max(options, i, total_votes, owps, max_votes, winner) ==
    IF i > Len(options)
    THEN [owps |-> owps, max_votes |-> max_votes, winner |-> winner]
    ELSE IF ~IsDict(options[i])
    THEN statistics_scan_last_max(options, i + 1, total_votes, owps, max_votes, winner)
    ELSE LET owp == option_with_percentage(options[i], i, total_votes) IN
         IF owp.vote_count >= max_votes
         THEN statistics_scan_last_max(options, i + 1, total_votes, Append(owps, owp),
                                       owp.vote_count, owp)
         ELSE statistics_scan_last_max(options, i + 1, total_votes, Append(owps, owp),
                                       max_votes, winner)

\* the second for loop: options_with_percentages, max_votes and winner
RECURSIVE statistics_scan(_, _, _, _, _, _)
statistics_scan(options, i, total_votes, owps, max_votes, winner) ==
    IF i > Len(options)
    THEN [owps |-> owps, max_votes |-> max_votes, winner |-> winner]
    ELSE IF ~IsDict(options[i])
    THEN statistics_scan(options, i + 1, total_votes, owps, max_votes, winner)
    ELSE LET owp == option_with_percentage(options[i], i, total_votes) IN
         IF owp.vote_count > max_votes
         THEN statistics_scan(options, i + 1, total_votes, Append(owps, owp),
                              owp.vote_count, owp)
         ELSE statistics_scan(options, i + 1, total_votes, Append(owps, owp),
                              max_votes, winner)

\* sort_by_votes_desc putting a later option in front of the earlier ones
\* with the same vote_count: descending, ties reversed
RECURSIVE sort_by_votes_desc_ties_reversed(_)
sort_by_votes_desc_ties_reversed(owps) ==
    IF owps = <<>> THEN <<>>
    ELSE LET front  == sort_by_votes_desc_ties_reversed(SubSeq(owps, 1, Len(owps) - 1))
             x      == owps[Len(owps)]
             before == SelectSeq(front, LAMBDA y : y.vote_count > x.vote_count)
             after  == SelectSeq(front, LAMBDA y : y.vote_count <= x.vote_count)
         IN  before \o <<x>> \o after

\* list.sort(key=vote_count, reverse=True): descending and stable
RECURSIVE sort_by_votes_desc(_)
sort_by_votes_desc(owps) ==
    IF owps = <<>> THEN <<>>
    ELSE LET front  == sort_by_votes_desc(SubSeq(owps, 1, Len(owps) - 1))
             x      == owps[Len(owps)]
             before == SelectSeq(front, LAMBDA y : y.vote_count >= x.vote_count)
             after  == SelectSeq(front, LAMBDA y : y.vote_count < x.vote_count)
         IN  before \o <<x>> \o after

Statistics(total_votes, options_count, winner, owps) ==
    [k |-> "statistics", total_votes |-> total_votes, options_count |-> options_count,
     winner |-> winner, options_with_percentages |-> owps]

get_poll_statistics_of(results_data) ==
    IF no_results(results_data)
    THEN Return(Statistics(0, 0, JNull, <<>>))
    ELSE IF ~IsList(results_data.d.results)
    THEN Raise("TypeError", TextMsg("object is not iterable"))
    ELSE LET options == results_data.d.results.items
             total   == sum_votes(options, 1, 0)
         IN  IF total.err # "none"
             THEN Raise(total.err, TextMsg("sum"))
             ELSE LET scan == statistics_scan(options, 1, total.total, <<>>, 0, JNull) IN
                  Return(Statistics(total.total, Len(options),
                                    IF scan.max_votes > 0 THEN scan.winner ELSE JNull,
                                    sort_by_votes_desc(scan.owps)))

get_poll_statistics(poll_id, t) ==
    LET r == get_poll_results_simple(poll_id, t) IN
    IF r.out.t = "raise" THEN r
    ELSE Did(get_poll_statistics_of(r.out.value), r.sent)


----------------------------------------------------------------------------
(* user_registration.py                                                    *)

NameArgs == { StrArg(<<>>), StrArg(<<"u">>), NoneArg, IntArg(5) }

ObjectBodies ==
    { JsonBody(JDict([id |-> JNum(1), option_id |-> JNum(o)])) : o \in {1, 2} }

CreatedAtValues == { JStr(IsoDate), JStr(<<"x">>), JNum(7), JNull }

\* vote bodies with created_at, and with an option_id that is not a number
DatedBodies ==
    { JsonBody(JDict([id |-> JStr(<<"x">>), user_id |-> JNum(1), option_id |-> o,
                      created_at |-> c])) :
        o \in { JNum(1), JNum(2), JStr(<<"x">>) }, c \in CreatedAtValues }

ObjectResponses ==
    TransportFailures
    \cup { Response(s, b) : s \in Statuses, b \in SmallBodies \cup ObjectBodies }
    \cup { Response(HTTP_OK, b) : b \in DatedBodies }

nonempty_string_validate(arg, what) ==
    IF ~ArgTruthy(arg) \/ ~IsStr(arg)
    THEN Raise("ValueError", TextMsg(what))
    ELSE [t |-> "ok"]

register_user_request(username, password) ==
    [method |-> "POST", path |-> "/register",
     json |-> [username |-> username.s, password |-> password.s]]

\* the validation of a 200 body that is a dict: one warning, nothing raises
register_user_validate(user_data) ==
    [t |-> "ok",
     warnings |-> WarnIf(MissingAny(user_data, {"id", "username"}), "missing fields")]

\* register_user_response taking every 2xx status for a success
register_user_response_any_2xx(t) ==
    IF t.t = "raise"
    THEN Raise("UserRegistrationError", TransportErrorMsg(t.exc))
    ELSE IF t.status >= 200 /\ t.status < 300
    THEN IF ~t.body.json
         THEN Raise("UserRegistrationError", ParseErrorMsg)
         ELSE IF ~IsDict(t.body.val)
         THEN Raise("AttributeError", TextMsg("object has no attribute 'get'"))
         ELSE IF register_user_validate(t.body.val).t = "raise"
         THEN register_user_validate(t.body.val)
         ELSE Success(t.body.val, t.status)
    ELSE IF t.status = 400
    THEN Failure(JNull, DomainErrorMsg("Username already registered", t.body), t.status)
    ELSE Failure(JNull,
                 HttpErrorMsg("Unexpected HTTP status code", t.status, t.body, 0 - 1),
                 t.status)

\* user_data.get('id') on a 200 body that is not a dict is not caught
register_user_response(t) ==
    IF t.t = "raise"
    THEN Raise("UserRegistrationError", TransportErrorMsg(t.exc))
    ELSE IF t.status = HTTP_OK
    THEN IF ~t.body.json
         THEN Raise("UserRegistrationError", ParseErrorMsg)
         ELSE IF ~IsDict(t.body.val)
         THEN Raise("AttributeError", TextMsg("object has no attribute 'get'"))
         ELSE IF register_user_validate(t.body.val).t = "raise"
         THEN register_user_validate(t.body.val)
         ELSE Success(t.body.val, t.status)
    ELSE IF t.status = 400
    THEN Failure(JNull, DomainErrorMsg("Username already registered", t.body), t.status)
    ELSE Failure(JNull,
                 HttpErrorMsg("Unexpected HTTP status code", t.status, t.body, 0 - 1),
                 t.status)

register_user(username, password, t) ==
    LET vu == nonempty_string_validate(username, "Username must be a non-empty string")
        vp == nonempty_string_validate(password, "Password must be a non-empty string")
    IN  IF vu.t = "raise" THEN Did(vu, <<>>)
        ELSE IF vp.t = "raise" THEN Did(vp, <<>>)
        ELSE Did(register_user_response(t), <<register_user_request(username, password)>>)

register_user_simple(username, password, t) ==
    LET r == register_user(username, password, t) IN
    IF r.out.t = "raise" THEN r
    ELSE IF r.out.success /\ r.out.data # JNull THEN Did(Return(r.out.data), r.sent)
    ELSE Did(Raise("UserRegistrationError",
                   Wrapped("Registration failed: ", OrUnknown(r.out.error_message))),
             r.sent)

----------------------------------------------------------------------------
(* vote_caster.py                                                          *)

OptionIdArgs == { IntArg(n) : n \in {0, 1} } \cup { StrArg(<<"1">>) }

TokenArgs ==
    { StrArg(<<>>), StrArg(<<"t">>), StrArg(<<" ">>), StrArg(<<" ", "t", " ">>),
      NoneArg, IntArg(5) }

\* str.strip(): leading and trailing whitespace removed
RECURSIVE lstrip(_)
lstrip(str) == IF str # <<>> /\ Head(str) = " " THEN lstrip(Tail(str)) ELSE str

RECURSIVE rstrip(_)
rstrip(str) ==
    IF str # <<>> /\ str[Len(str)] = " " THEN rstrip(SubSeq(str, 1, Len(str) - 1)) ELSE str

\* strip removing the leading whitespace only
strip_leading_only(str) == lstrip(str)

strip(str) == rstrip(lstrip(str))

cast_vote_request(poll_id, option_id, access_token) ==
    [method |-> "POST", path |-> "/polls/{poll_id}/vote", poll_id |-> poll_id.n,
     authorization |-> [scheme |-> "Bearer", token |-> strip(access_token.s)],
     json |-> [option_id |-> option_id.n]]

\* the validation of a 200 body that is a dict: warnings, and whatever the
\* created_at check lets through
cast_vote_validate(vote_data, option_id) ==
    LET c == created_at_check(vote_data) IN
    IF c.t = "raise" THEN c
    ELSE [t |-> "ok",
          warnings |->
              WarnIf(MissingAny(vote_data, {"id", "user_id", "option_id", "created_at"}),
                     "missing fields")
              \cup WarnIf(WrongKind(vote_data, "id", "num"), "Vote ID should be an integer")
              \cup WarnIf(WrongKind(vote_data, "user_id", "num"), "User ID should be an integer")
              \cup WarnIf(WrongKind(vote_data, "option_id", "num"),
                          "Option ID should be an integer")
              \cup c.warnings
              \cup WarnIf(~HasKey(vote_data, "option_id")
                            \/ vote_data.d.option_id # JNum(option_id.n),
                          "option_id doesn't match")]

\* vote_data.get('id') on a 200 body that is not a dict is not caught
cast_vote_response(t, option_id) ==
    IF t.t = "raise"
    THEN Raise("VoteCastError", TransportErrorMsg(t.exc))
    ELSE IF t.status = HTTP_OK
    THEN IF ~t.body.json
         THEN Raise("VoteCastError", ParseErrorMsg)
         ELSE IF ~IsDict(t.body.val)
         THEN Raise("AttributeError", TextMsg("object has no attribute 'get'"))
         ELSE IF cast_vote_validate(t.body.val, option_id).t = "raise"
         THEN cast_vote_validate(t.body.val, option_id)
         ELSE Success(t.body.val, t.status)
    ELSE IF t.status = 401
    THEN Failure(JNull,
                 DomainErrorMsg("Unauthorized: Invalid or expired access token", t.body),
                 t.status)
    ELSE IF t.status = 404
    THEN Failure(JNull, DomainErrorMsg("Poll or option not found", t.body), t.status)
    ELSE Failure(JNull,
                 HttpErrorMsg("Failed to cast vote", t.status, t.body, ErrorTextLimit),
                 t.status)

cast_vote(poll_id, option_id, access_token, t) ==
    LET vp == positive_id_validate(poll_id, "Poll ID must be a positive integer")
        vo == positive_id_validate(option_id, "Option ID must be a positive integer")
        vt == nonempty_string_validate(access_token, "Access token must be a non-empty string")
    IN  IF vp.t = "raise" THEN Did(vp, <<>>)
        ELSE IF vo.t = "raise" THEN Did(vo, <<>>)
        ELSE IF vt.t = "raise" THEN Did(vt, <<>>)
        ELSE Did(cast_vote_response(t, option_id),
                 <<cast_vote_request(poll_id, option_id, access_token)>>)

cast_vote_simple(poll_id, option_id, access_token, t) ==
    LET r == cast_vote(poll_id, option_id, access_token, t) IN
    IF r.out.t = "raise" THEN r
    ELSE IF r.out.success /\ r.out.data # JNull THEN Did(Return(r.out.data), r.sent)
    ELSE Did(Raise("VoteCastError",
                   Wrapped("Vote casting failed: ", OrUnknown(r.out.error_message))),
             r.sent)

----------------------------------------------------------------------------
(* The state machine: one invocation of one operation                      *)

NoOutcome == [t |-> "none"]

Init ==
    /\ pc = "idle"
    /\ call = [op |-> "none"]
    /\ sent = <<>>
    /\ inflight = 0
    /\ resps = <<>>
    /\ pages = <<>>
    /\ all_polls = <<>>
    /\ skip = 0
    /\ outcome = NoOutcome
    /\ backend = <<>>

\* a single-request operation runs to its end: c is the call, r what it did
\* and t what the transport answered if it was asked
Invoke(c, r, t) ==
    /\ pc' = "done"
    /\ call' = c
    /\ sent' = r.sent
    /\ resps' = IF r.sent = <<>> THEN <<>> ELSE <<t>>
    /\ outcome' = r.out
    /\ UNCHANGED <<inflight, pages, all_polls, skip, backend>>

FetchPolls ==
    /\ pc = "idle"
    /\ \E s \in SkipArgs, l \in LimitArgs, t \in ListResponses :
           Invoke([op |-> "fetch_polls", skip |-> s, limit |-> l], fetch_polls(s, l, t), t)

FetchPollsSimple ==
    /\ pc = "idle"
    /\ \E s \in SkipArgs, l \in LimitArgs, t \in ListResponses :
           Invoke([op |-> "fetch_polls_simple", skip |-> s, limit |-> l],
                  fetch_polls_simple(s, l, t), t)

SearchPollsByQuestion ==
    /\ pc = "idle"
    /\ \E kw \in KeywordArgs, s \in SkipArgs, l \in LimitArgs, t \in SearchResponses :
           Invoke([op |-> "search_polls_by_question", keyword |-> kw, skip |-> s, limit |-> l],
                  search_polls_by_question(kw, s, l, t), t)

GetPollResults ==
    /\ pc = "idle"
    /\ \E p \in PollIdArgs, t \in ResultsResponses :
           Invoke([op |-> "get_poll_results", poll_id |-> p], get_poll_results(p, t), t)

GetPollResultsSimple ==
    /\ pc = "idle"
    /\ \E p \in PollIdArgs, t \in ResultsResponses :
           Invoke([op |-> "get_poll_results_simple", poll_id |-> p],
                  get_poll_results_simple(p, t), t)

GetPollWinner ==
    /\ pc = "idle"
    /\ \E p \in PollIdArgs, t \in ResultsResponses :
           Invoke([op |-> "get_poll_winner", poll_id |-> p], get_poll_winner(p, t), t)

GetPollStatistics ==
    /\ pc = "idle"
    /\ \E p \in PollIdArgs, t \in ResultsResponses :
           Invoke([op |-> "get_poll_statistics", poll_id |-> p], get_poll_statistics(p, t), t)

RegisterUser ==
    /\ pc = "idle"
    /\ \E u \in NameArgs, pw \in NameArgs, t \in ObjectResponses :
           Invoke([op |-> "register_user", username |-> u, password |-> pw],
                  register_user(u, pw, t), t)

RegisterUserSimple ==
    /\ pc = "idle"
    /\ \E u \in NameArgs, pw \in NameArgs, t \in ObjectResponses :
           Invoke([op |-> "register_user_simple", username |-> u, password |-> pw],
                  register_user_simple(u, pw, t), t)

CastVote ==
    /\ pc = "idle"
    /\ \E p \in PollIdArgs, o \in OptionIdArgs, tok \in TokenArgs, t \in ObjectResponses :
           Invoke([op |-> "cast_vote", poll_id |-> p, option_id |-> o, access_token |-> tok],
                  cast_vote(p, o, tok, t), t)

CastVoteSimple ==
    /\ pc = "idle"
    /\ \E p \in PollIdArgs, o \in OptionIdArgs, tok \in TokenArgs, t \in ObjectResponses :
           Invoke([op |-> "cast_vote_simple", poll_id |-> p, option_id |-> o,
                   access_token |-> tok],
                  cast_vote_simple(p, o, tok, t), t)

(* fetch_all_polls, request by request                                     *)

\* entry: the batch_size guard, then all_polls = [] and skip = 0
FetchAllPollsStart ==
    /\ pc = "idle"
    /\ \E b \in BatchArgs :
        LET v == fetch_all_polls_validate(b) IN
        /\ call' = [op |-> "fetch_all_polls", batch_size |-> b]
        /\ pc' = IF v.t = "raise" THEN "done" ELSE "fa_call"
        /\ outcome' = IF v.t = "raise" THEN v ELSE NoOutcome
    /\ all_polls' = <<>>
    /\ skip' = 0
    /\ UNCHANGED <<sent, inflight, resps, pages, backend>>

\* top of the loop: fetch_polls(skip, batch_size) validates and sends
FetchAllPollsSend ==
    /\ pc = "fa_call"
    /\ Len(sent) < MaxCalls
    /\ LET v == fetch_polls_validate(IntArg(skip), call.batch_size) IN
       IF v.t = "raise"
       THEN /\ pc' = "done"
            /\ outcome' = v
            /\ UNCHANGED <<sent, inflight>>
       ELSE /\ pc' = "fa_wait"
            /\ sent' = Append(sent, fetch_polls_request(IntArg(skip), call.batch_size))
            /\ inflight' = inflight + 1
            /\ UNCHANGED outcome
    /\ UNCHANGED <<call, resps, pages, all_polls, skip, backend>>

\* the transport answers, fetch_polls returns or raises, the loop body runs
FetchAllPollsReceive ==
    /\ pc = "fa_wait"
    /\ Len(resps) < Len(sent)
    /\ \E t \in PageResponses(Len(sent)) :
        LET result == fetch_polls_response(t)
            nxt    == fetch_all_polls_step(result, all_polls, skip, call.batch_size.n)
        IN  /\ resps' = Append(resps, t)
            /\ pages' = IF result.t = "return" /\ result.success
                        THEN Append(pages, result.data) ELSE pages
            /\ pc' = nxt.pc
            /\ all_polls' = nxt.all_polls
            /\ skip' = nxt.skip
            /\ outcome' = nxt.out
    /\ inflight' = inflight - 1
    /\ UNCHANGED <<call, sent, backend>>

Next ==
    \/ FetchPolls
    \/ FetchPollsSimple
    \/ SearchPollsByQuestion
    \/ FetchAllPollsStart
    \/ FetchAllPollsSend
    \/ FetchAllPollsReceive
    \/ GetPollResults
    \/ GetPollResultsSimple
    \/ GetPollWinner
    \/ GetPollStatistics
    \/ RegisterUser
    \/ RegisterUserSimple
    \/ CastVote
    \/ CastVoteSimple

Spec == Init /\ [][Next]_vars

(* fetch_all_polls against a backend that holds a fixed sequence of polls   *)
(* and answers GET /polls?skip=s&limit=l with its elements [s, s + l)      *)

BackendPoll(i) == JDict([id |-> JNum(i), question |-> JStr(<<"A", "b">>)])

BackendPolls(n) == [i \in 1..n |-> BackendPoll(i)]

\* elements [skp, skp + limit) of polls
list_polls(polls, skp, limit) ==
    SubSeq(polls, skp + 1, Min(skp + limit, Len(polls)))

BackendInit ==
    /\ pc = "idle"
    /\ call = [op |-> "none"]
    /\ sent = <<>>
    /\ inflight = 0
    /\ resps = <<>>
    /\ pages = <<>>
    /\ all_polls = <<>>
    /\ skip = 0
    /\ outcome = NoOutcome
    /\ backend \in { BackendPolls(n) : n \in 0..MaxBackend }

\* the backend answers the request in flight, fetch_polls returns the page,
\* the loop body runs
BackendAnswer ==
    /\ pc = "fa_wait"
    /\ Len(resps) < Len(sent)
    /\ LET req    == sent[Len(sent)]
           t      == Response(HTTP_OK,
                              JsonBody(JList(list_polls(backend, req.skip, req.limit))))
           result == fetch_polls_response(t)
           nxt    == fetch_all_polls_step(result, all_polls, skip, call.batch_size.n)
       IN  /\ resps' = Append(resps, t)
           /\ pages' = IF result.t = "return" /\ result.success
                       THEN Append(pages, result.data) ELSE pages
           /\ pc' = nxt.pc
           /\ all_polls' = nxt.all_polls
           /\ skip' = nxt.skip
           /\ outcome' = nxt.out
    /\ inflight' = inflight - 1
    /\ UNCHANGED <<call, sent, backend>>

BackendNext ==
    \/ FetchAllPollsStart
    \/ FetchAllPollsSend
    \/ BackendAnswer

BackendSpec == BackendInit /\ [][BackendNext]_vars

(* fetch_all_polls beyond the MaxCalls requests the logs hold: the loop    *)
(* goes on as the code does, the model keeps its control position only    *)
(* (sent, resps, pages, all_polls and skip stay at what was recorded)     *)

\* top of the loop once MaxCalls requests are on record
FetchAllPollsSendOn ==
    /\ pc = "fa_call"
    /\ Len(sent) = MaxCalls
    /\ fetch_polls_validate(IntArg(skip), call.batch_size).t = "ok"
    /\ pc' = "fa_wait"
    /\ inflight' = inflight + 1
    /\ UNCHANGED <<call, sent, resps, pages, all_polls, skip, outcome, backend>>

\* the answer to a request that is not on record: the loop body decides as
\* ever whether the call ends or asks again
FetchAllPollsReceiveOn ==
    /\ pc = "fa_wait"
    /\ Len(resps) = Len(sent)
    /\ \E t \in PageResponses(MaxCalls + 1) :
        LET result == fetch_polls_response(t)
            nxt    == fetch_all_polls_step(result, all_polls, skip, call.batch_size.n)
        IN  /\ pc' = nxt.pc
            /\ outcome' = nxt.out
    /\ inflight' = inflight - 1
    /\ UNCHANGED <<call, sent, resps, pages, all_polls, skip, backend>>

LoopNext ==
    \/ Next
    \/ FetchAllPollsSendOn
    \/ FetchAllPollsReceiveOn

\* the loop of fetch_all_polls keeps running, and the blocking request of
\* fetch_polls (timeout=30) always comes back with a response or an exception
FairSpec ==
    /\ Init
    /\ [][LoopNext]_vars
    /\ WF_vars(FetchAllPollsSend)
    /\ WF_vars(FetchAllPollsReceive)
    /\ WF_vars(FetchAllPollsSendOn)
    /\ WF_vars(FetchAllPollsReceiveOn)


----------------------------------------------------------------------------
(* Properties of fetch_all_polls                                           *)

InFetchAll == call.op = "fetch_all_polls"

BatchSize == call.batch_size.n

Returned == pc = "done" /\ outcome.t = "value"

Raised == pc = "done" /\ outcome.t = "raise"

RECURSIVE Flatten(_)
Flatten(seqs) == IF seqs = <<>> THEN <<>> ELSE Head(seqs) \o Flatten(Tail(seqs))

\* the transport's answer is one fetch_polls turns into a page
IsListPage(t) ==
    /\ t.t = "resp"
    /\ t.status = 200
    /\ t.body.json
    /\ t.body.val.k = "list"

\* C1: when fetch_all_polls returns, its value is the concatenation, in
\* request order, of the pages its fetch_polls calls returned; every page
\* but the last is non-empty and not shorter than batch_size, the last one
\* is the first short page (included) or the first empty page (adding
\* nothing), and no further request can be sent.
C1_ReturnsConcatenationOfPages ==
    (InFetchAll /\ Returned) =>
        /\ outcome.value = Flatten(pages)
        /\ Len(pages) = Len(sent)
        /\ Len(pages) >= 1
        /\ \A k \in 1..(Len(pages) - 1) : Len(pages[k]) >= BatchSize /\ pages[k] # <<>>
        /\ Len(pages[Len(pages)]) < BatchSize
        /\ ~ENABLED FetchAllPollsSend

C1_Witness ==
    /\ InFetchAll /\ Returned
    /\ Len(pages) = 2
    /\ pages[2] # <<>>
    /\ Len(pages[2]) < BatchSize
    /\ outcome.value = pages[1] \o pages[2]

C1_WitnessEmptyLastPage ==
    /\ InFetchAll /\ Returned
    /\ Len(pages) = 3
    /\ pages[3] = <<>>
    /\ outcome.value = pages[1] \o pages[2]

\* C2: the k-th request (k = 0, 1, ...) carries skip = k * batch_size and
\* limit = batch_size; request k+1 exists only when the answer to request k
\* was a successful page, non-empty and not shorter than batch_size; at most
\* one request is unanswered at any time.
C2_SequentialOffsets ==
    InFetchAll =>
        /\ \A k \in 1..Len(sent) :
              /\ sent[k].skip = (k - 1) * BatchSize
              /\ sent[k].limit = BatchSize
        /\ \A k \in 2..Len(sent) :
              /\ Len(resps) >= k - 1
              /\ IsListPage(resps[k - 1])
              /\ Len(pages) >= k - 1
              /\ pages[k - 1] # <<>>
              /\ Len(pages[k - 1]) >= BatchSize
        /\ inflight = Len(sent) - Len(resps)
        /\ inflight \in {0, 1}

C2_Witness ==
    /\ InFetchAll
    /\ Len(sent) = 3
    /\ inflight = 1
    /\ sent[3].skip = 2 * BatchSize
    /\ BatchSize = 2

\* C3: once any request of fetch_all_polls has failed (a Failure, a transport
\* error or a malformed 200 body) the call has ended by raising; it returns
\* nothing, whatever was accumulated before.
C3_AllOrNothing ==
    (InFetchAll /\ \E k \in 1..Len(resps) : ~IsListPage(resps[k])) =>
        /\ Raised
        /\ outcome.exc = "PollFetchError"

C3_Witness ==
    /\ InFetchAll /\ Raised
    /\ Len(pages) = 2
    /\ all_polls # <<>>
    /\ resps[3].t = "resp" /\ resps[3].status = 500


----------------------------------------------------------------------------
(* Properties of the detailed operations and their simple variants         *)

DetailedOps == {"fetch_polls", "get_poll_results", "register_user", "cast_vote"}

Done == pc = "done"

\* the transport answered the (only) request of a single-request operation
Answered == Done /\ Len(resps) = 1 /\ resps[1].t = "resp"

BadSkip(a)     == a.ty # "int" \/ a.n < 0
BadLimit(a)    == a.ty # "int" \/ a.n <= 0
BadId(a)       == a.ty # "int" \/ a.n <= 0
BadString(a)   == a.ty # "str" \/ a.s = <<>>
EmptyKeyword(a) == a = StrArg(<<>>) \/ a = NoneArg

BadArguments ==
    CASE call.op \in {"fetch_polls", "fetch_polls_simple"} ->
            BadSkip(call.skip) \/ BadLimit(call.limit)
      [] call.op = "search_polls_by_question" ->
            EmptyKeyword(call.keyword) \/ BadSkip(call.skip) \/ BadLimit(call.limit)
      [] call.op \in {"get_poll_results", "get_poll_results_simple",
                      "get_poll_winner", "get_poll_statistics"} ->
            BadId(call.poll_id)
      [] call.op \in {"register_user", "register_user_simple"} ->
            BadString(call.username) \/ BadString(call.password)
      [] call.op \in {"cast_vote", "cast_vote_simple"} ->
            BadId(call.poll_id) \/ BadId(call.option_id) \/ BadString(call.access_token)
      [] OTHER -> FALSE

\* C5: arguments that violate the preconditions make every operation raise
\* ValueError without any request being sent; a limit above 100 is accepted
\* by fetch_polls and the request goes out with that limit.
C5_InvalidArgumentsSendNothing ==
    /\ (Done /\ BadArguments) =>
          /\ outcome.t = "raise"
          /\ outcome.exc = "ValueError"
          /\ sent = <<>>
          /\ resps = <<>>
    /\ (Done /\ call.op = "fetch_polls" /\ ~BadSkip(call.skip)
             /\ call.limit.ty = "int" /\ call.limit.n > 100) =>
          /\ Len(sent) = 1
          /\ sent[1].limit = call.limit.n
          /\ sent[1].skip = call.skip.n

C5_Witness ==
    /\ Done /\ call.op = "search_polls_by_question"
    /\ call.keyword = StrArg(<<"a">>)
    /\ call.skip = IntArg(0) /\ call.limit = IntArg(0)
    /\ outcome.t = "raise" /\ outcome.exc = "ValueError"
    /\ sent = <<>>

C5_WitnessLargeLimit ==
    /\ Done /\ call.op = "fetch_polls"
    /\ call.limit = IntArg(101)
    /\ Len(sent) = 1
    /\ outcome.t = "return" /\ outcome.success

\* the detailed variant's result for the call and the answer in the state
DetailedOfSimple ==
    CASE call.op = "fetch_polls_simple" ->
            fetch_polls(call.skip, call.limit, resps[1])
      [] call.op = "get_poll_results_simple" ->
            get_poll_results(call.poll_id, resps[1])
      [] call.op = "register_user_simple" ->
            register_user(call.username, call.password, resps[1])
      [] call.op = "cast_vote_simple" ->
            cast_vote(call.poll_id, call.option_id, call.access_token, resps[1])

SimpleOps ==
    {"fetch_polls_simple", "get_poll_results_simple", "register_user_simple",
     "cast_vote_simple"}

FailedPrefix ==
    CASE call.op = "fetch_polls_simple"      -> "Poll fetch failed: "
      [] call.op = "get_poll_results_simple" -> "Poll results retrieval failed: "
      [] call.op = "register_user_simple"    -> "Registration failed: "
      [] call.op = "cast_vote_simple"        -> "Vote casting failed: "

OperationError ==
    CASE call.op = "fetch_polls_simple"      -> "PollFetchError"
      [] call.op = "get_poll_results_simple" -> "PollResultsError"
      [] call.op = "register_user_simple"    -> "UserRegistrationError"
      [] call.op = "cast_vote_simple"        -> "VoteCastError"

\* a Failure message that is the empty string, or no message at all
EmptyOrAbsent(msg) ==
    \/ msg.m = "none"
    \/ msg.m = "value" /\ msg.v \in {JStr(<<>>), JNull}

\* a Failure message that is neither a string nor null and that Python
\* takes for false (the number 0): the claim speaks of messages, which are
\* strings, and does not say what is raised for it
FalseNonString(msg) ==
    msg.m = "value" /\ msg.v.k \notin {"str", "null"} /\ ~JTruthy(msg.v)

\* C6: a simple variant returns the data of the detailed variant's Success,
\* turns its Failure into the operation's error with the message
\* "<Operation> failed: " followed by the Failure's message, or by
\* "Unknown error" when that message is empty or absent, and sends exactly
\* the requests the detailed variant sends.
C6_SimpleRefinesDetailed ==
    (Done /\ call.op \in SimpleOps) =>
        LET d == DetailedOfSimple IN
        /\ sent = d.sent
        /\ d.out.t = "raise" => outcome = d.out
        /\ (d.out.t = "return" /\ d.out.success) => outcome = Return(d.out.data)
        /\ (d.out.t = "return" /\ ~d.out.success) =>
              /\ outcome.t = "raise"
              /\ outcome.exc = OperationError
              /\ outcome.msg.m = "wrapped"
              /\ outcome.msg.prefix = FailedPrefix
              /\ EmptyOrAbsent(d.out.error_message) =>
                    outcome.msg.inner = UnknownError
              /\ (~EmptyOrAbsent(d.out.error_message)
                    /\ ~FalseNonString(d.out.error_message)) =>
                    outcome.msg.inner = d.out.error_message

C6_Witness ==
    /\ Done /\ call.op = "get_poll_results_simple"
    /\ Len(resps) = 1 /\ resps[1].t = "resp" /\ resps[1].status = 404
    /\ resps[1].body = JsonBody(JDict([detail |-> JStr(<<>>)]))
    /\ outcome.t = "raise" /\ outcome.exc = "PollResultsError"
    /\ outcome.msg = Wrapped("Poll results retrieval failed: ", UnknownError)

C6_WitnessSuccess ==
    /\ Done /\ call.op = "fetch_polls_simple"
    /\ outcome = Return(<<PollA, PollB>>)
    /\ Len(sent) = 1


----------------------------------------------------------------------------
(* Properties of the results analysis                                      *)

\* the body get_poll_results accepted as a Success holds a results list
HasResultsList ==
    /\ Answered
    /\ resps[1].status = 200
    /\ resps[1].body.json
    /\ resps[1].body.val.k = "dict"
    /\ "results" \in DOMAIN resps[1].body.val.d
    /\ resps[1].body.val.d.results.k = "list"

Options == resps[1].body.val.d.results.items

\* entry i of the response is an option with an integer vote_count
Counted(i) ==
    /\ Options[i].k = "dict"
    /\ "vote_count" \in DOMAIN Options[i].d
    /\ Options[i].d.vote_count.k = "num"

Votes(i) == Options[i].d.vote_count.n

SomeVoteCast == \E i \in 1..Len(Options) : Counted(i) /\ Votes(i) > 0

\* position i holds the maximum vote_count and no earlier position does
FirstWithMaximum(i) ==
    /\ Counted(i)
    /\ \A j \in 1..Len(Options) : Counted(j) => Votes(j) <= Votes(i)
    /\ \A j \in 1..(i - 1) : Counted(j) => Votes(j) < Votes(i)

WinnerReturned == call.op = "get_poll_winner" /\ Done /\ outcome.t = "value"

C8_NoWinnerIffNoVotes ==
    WinnerReturned =>
        (outcome.value = JNull <=> (~HasResultsList \/ Options = <<>> \/ ~SomeVoteCast))

C8_Witness ==
    /\ WinnerReturned /\ HasResultsList
    /\ Len(Options) = 2
    /\ Counted(1) /\ Counted(2)
    /\ Votes(1) = 0 /\ Votes(2) = 0
    /\ outcome.value = JNull

C8_WitnessWinner ==
    /\ WinnerReturned /\ HasResultsList
    /\ Len(Options) = 2
    /\ Counted(1) /\ Counted(2)
    /\ Votes(1) = 0 /\ Votes(2) = 1
    /\ outcome.value # JNull

StatisticsReturned == call.op = "get_poll_statistics" /\ Done /\ outcome.t = "value"

\* vote_count of entry i as the statistics count it: 0 when it is missing
VotesOrZero(i) == IF "vote_count" \in DOMAIN Options[i].d THEN Votes(i) ELSE 0

RECURSIVE SumOfVotes(_)
SumOfVotes(n) == IF n = 0 THEN 0 ELSE SumOfVotes(n - 1) + VotesOrZero(n)

Abs(x) == IF x < 0 THEN 0 - x ELSE x

\* p tenths of a percent is v / t * 100 rounded to one decimal (t # 0)
IsRoundedPercentage(p, v, t) == 2 * Abs(p * t - 1000 * v) <= Abs(t)

\* the entry of options_with_percentages made from position i of the response
Reported(i) ==
    CHOOSE o \in { outcome.value.options_with_percentages[j] :
                     j \in 1..Len(outcome.value.options_with_percentages) } : o.pos = i

EveryOptionReported ==
    /\ Len(outcome.value.options_with_percentages) = Len(Options)
    /\ \A i \in 1..Len(Options) :
          \E j \in 1..Len(Options) : outcome.value.options_with_percentages[j].pos = i

\* C9 as stated: total_votes is the sum of the vote counts and every
\* option's percentage is vote_count / total_votes * 100 rounded to one
\* decimal, and 0 when total_votes = 0.
C9_Original ==
    (StatisticsReturned /\ HasResultsList) =>
        /\ outcome.value.total_votes = SumOfVotes(Len(Options))
        /\ EveryOptionReported
        /\ \A i \in 1..Len(Options) :
              /\ Reported(i).vote_count = VotesOrZero(i)
              /\ IF outcome.value.total_votes = 0
                 THEN Reported(i).percentage = 0
                 ELSE IsRoundedPercentage(Reported(i).percentage, VotesOrZero(i),
                                          outcome.value.total_votes)

\* C9 (amended): total_votes is the sum of the vote counts; every option's
\* percentage is vote_count / total_votes * 100 rounded to one decimal when
\* total_votes > 0, and 0 when total_votes <= 0.
C9_PercentagesOfTotal ==
    (StatisticsReturned /\ HasResultsList) =>
        /\ outcome.value.total_votes = SumOfVotes(Len(Options))
        /\ EveryOptionReported
        /\ \A i \in 1..Len(Options) :
              /\ Reported(i).vote_count = VotesOrZero(i)
              /\ IF outcome.value.total_votes <= 0
                 THEN Reported(i).percentage = 0
                 ELSE IsRoundedPercentage(Reported(i).percentage, VotesOrZero(i),
                                          outcome.value.total_votes)

C9_Witness ==
    /\ StatisticsReturned /\ HasResultsList
    /\ Len(Options) = 2
    /\ outcome.value.total_votes = 3
    /\ Reported(1).vote_count = 1 /\ Reported(1).percentage = 333
    /\ Reported(2).vote_count = 2 /\ Reported(2).percentage = 667

C9_WitnessNegativeTotal ==
    /\ StatisticsReturned /\ HasResultsList
    /\ Len(Options) = 2
    /\ outcome.value.total_votes < 0
    /\ Reported(1).vote_count = 1 /\ Reported(1).percentage = 0

\* C10: get_poll_statistics reports winner = None whenever total_votes = 0,
\* for every results list get_poll_results accepts.
C10_NoWinnerWhenTotalIsZero ==
    (StatisticsReturned /\ outcome.value.total_votes = 0) => outcome.value.winner = JNull

\* C11: options_with_percentages is a permutation of the options of the
\* response (every position reported once, with its option_id and
\* vote_count), ordered by vote_count descending, and options with equal
\* vote_count keep the relative order they had in the response.
C11_SortedStablePermutation ==
    (StatisticsReturned /\ HasResultsList) =>
        LET owps == outcome.value.options_with_percentages IN
        /\ EveryOptionReported
        /\ \A j \in 1..Len(owps) :
              /\ owps[j].pos \in 1..Len(Options)
              /\ owps[j].option_id = Options[owps[j].pos].d.option_id
              /\ owps[j].vote_count = VotesOrZero(owps[j].pos)
        /\ \A j \in 1..Len(owps) : \A k \in (j + 1)..Len(owps) :
              /\ owps[j].vote_count >= owps[k].vote_count
              /\ owps[j].vote_count = owps[k].vote_count => owps[j].pos < owps[k].pos

C11_Witness ==
    /\ StatisticsReturned /\ HasResultsList
    /\ Len(Options) = 3
    /\ Counted(1) /\ Counted(2) /\ Counted(3)
    /\ Votes(1) = 1 /\ Votes(2) = 2 /\ Votes(3) = 2
    /\ Options[2].d.option_id.n > Options[3].d.option_id.n
    /\ outcome.value.options_with_percentages[1].pos = 2
    /\ outcome.value.options_with_percentages[2].pos = 3
    /\ outcome.value.options_with_percentages[3].pos = 1

----------------------------------------------------------------------------
(* Properties of the error messages and of the Success data                *)

\* the answered status is one the operation has a message of its own for
RecognisedDomainError ==
    /\ call.op \in DetailedOps
    /\ Answered
    /\ \/ call.op = "register_user" /\ resps[1].status = 400
       \/ call.op = "cast_vote" /\ resps[1].status \in {401, 404}
       \/ call.op = "get_poll_results" /\ resps[1].status = 404

GenericMessage ==
    CASE call.op = "register_user"    -> "Username already registered"
      [] call.op = "get_poll_results" -> "Poll not found"
      [] call.op = "cast_vote" /\ resps[1].status = 401 ->
            "Unauthorized: Invalid or expired access token"
      [] call.op = "cast_vote" /\ resps[1].status = 404 -> "Poll or option not found"

\* the body is a JSON object whose detail is a string
HasStringDetail(body) ==
    /\ body.json
    /\ body.val.k = "dict"
    /\ "detail" \in DOMAIN body.val.d
    /\ body.val.d.detail.k = "str"

\* C12: on a recognised domain error status the Failure message is the
\* body's detail verbatim when detail is present and a string, and the
\* operation's generic message when detail is absent, is not a string, or the
\* body is not a JSON object.
C12_DetailStringOrGeneric ==
    RecognisedDomainError =>
        /\ outcome.t = "return"
        /\ ~outcome.success
        /\ outcome.error_message =
              IF HasStringDetail(resps[1].body)
              THEN [m |-> "value", v |-> resps[1].body.val.d.detail]
              ELSE TextMsg(GenericMessage)

\* a detailed operation returned Success
SuccessReturned ==
    /\ call.op \in DetailedOps
    /\ Answered
    /\ outcome.t = "return"
    /\ outcome.success

\* C13: the data of a Success equals the parsed JSON body of the response:
\* the list of fetch_polls element by element in the same order, the object
\* of the three other operations, nothing removed or altered.
C13_SuccessDataIsBody ==
    SuccessReturned =>
        outcome.data = IF call.op = "fetch_polls"
                       THEN resps[1].body.val.items
                       ELSE resps[1].body.val

\* the (only) request was answered with status 200 and a JSON body
Answered200 ==
    /\ Answered
    /\ resps[1].status = 200
    /\ resps[1].body.json

\* the body has the top-level shape the operation expects
ExpectedShape ==
    IF call.op = "fetch_polls"
    THEN resps[1].body.val.k = "list"
    ELSE resps[1].body.val.k = "dict"

\* C14: a 200 response whose body has the expected top-level shape gives a
\* Success, whatever fields are missing or mistyped, whether or not
\* poll_id / option_id match the request and whether or not a vote_count is
\* negative: no validation finding raises or gives a Failure.
C14_ValidationNeverEscalates ==
    (call.op \in DetailedOps /\ Answered200 /\ ExpectedShape) =>
        /\ outcome.t = "return"
        /\ outcome.success
        /\ outcome.status_code = 200

C14_Witness ==
    /\ call.op = "cast_vote" /\ Answered200
    /\ call.option_id = IntArg(1)
    /\ resps[1].body.val.k = "dict"
    /\ "created_at" \in DOMAIN resps[1].body.val.d
    /\ resps[1].body.val.d.created_at = JNum(7)
    /\ resps[1].body.val.d.option_id = JNum(2)
    /\ cast_vote_validate(resps[1].body.val, call.option_id).warnings # {}
    /\ outcome.t = "return" /\ outcome.success

C14_WitnessNegativeVotes ==
    /\ call.op = "get_poll_results" /\ Answered200
    /\ resps[1].body.val.k = "dict"
    /\ "poll_id" \in DOMAIN resps[1].body.val.d
    /\ resps[1].body.val.d.poll_id = JNum(2)
    /\ "Vote count should not be negative"
           \in get_poll_results_validate(resps[1].body.val, call.poll_id).warnings
    /\ outcome.t = "return" /\ outcome.success

C14_WitnessBadDateInList ==
    /\ call.op = "fetch_polls" /\ Answered200
    /\ resps[1].body.val = JList(<<PollNumDate>>)
    /\ outcome.t = "return" /\ outcome.success

\* the error type of the module the operation belongs to
OwnError ==
    CASE call.op = "fetch_polls"      -> "PollFetchError"
      [] call.op = "get_poll_results" -> "PollResultsError"
      [] call.op = "register_user"    -> "UserRegistrationError"
      [] call.op = "cast_vote"        -> "VoteCastError"

\* C15: a 200 response whose body is valid JSON of the wrong top-level shape
\* makes the operation raise its own error type; it returns neither Success
\* nor Failure and raises no error of another kind.
C15_WrongShapeRaisesOwnError ==
    (call.op \in DetailedOps /\ Answered200 /\ ~ExpectedShape) =>
        /\ outcome.t = "raise"
        /\ outcome.exc = OwnError

\* C16: a response with a 2xx status whose body cannot be parsed as JSON
\* makes the operation raise its own error type rather than return a
\* Failure or a Success.
C16_Unparseable2xxRaises ==
    (call.op \in DetailedOps /\ Answered
        /\ resps[1].status \in 200..299 /\ ~resps[1].body.json) =>
        /\ outcome.t = "raise"
        /\ outcome.exc = OwnError

\* C17: a detailed operation called with valid arguments sends exactly one
\* request; when the transport raises on it (timeout, connection failure or
\* any other request error) the operation raises its own error with the
\* message of that failure, returns neither Success nor Failure, and sends
\* nothing more.
C17_OneSendNoRetry ==
    (call.op \in DetailedOps /\ Done /\ ~BadArguments) =>
        /\ Len(sent) = 1
        /\ Len(resps) = 1
        /\ inflight = 0
        /\ ~ENABLED Next
        /\ resps[1].t = "raise" =>
              /\ outcome.t = "raise"
              /\ outcome.exc = OwnError
              /\ outcome.msg = TransportErrorMsg(resps[1].exc)

C17_Witness ==
    /\ call.op = "cast_vote" /\ Done /\ ~BadArguments
    /\ resps = <<TransportRaise("ConnectionError")>>
    /\ Len(sent) = 1
    /\ outcome.t = "raise" /\ outcome.exc = "VoteCastError"

C17_WitnessTimeout ==
    /\ call.op = "fetch_polls" /\ Done /\ ~BadArguments
    /\ resps = <<TransportRaise("Timeout")>>
    /\ Len(sent) = 1
    /\ outcome = Raise("PollFetchError", TextMsg("Request timed out after 30 seconds"))

----------------------------------------------------------------------------
(* Properties of search_polls_by_question                                  *)

\* search_polls_by_question ended, called with a non-empty keyword and a
\* valid window
SearchDone ==
    /\ call.op = "search_polls_by_question"
    /\ Done
    /\ call.keyword.ty = "str" /\ call.keyword.s # <<>>
    /\ ~BadSkip(call.skip) /\ ~BadLimit(call.limit)

\* the two strings with upper and lower case identified
SameFolded(a, b) == Lower(a) = Lower(b)

\* the list entry is a poll whose question is a string holding the keyword
\* at some position, case ignored
QuestionHolds(entry, kw) ==
    /\ entry.k = "dict"
    /\ "question" \in DOMAIN entry.d
    /\ entry.d.question.k = "str"
    /\ \E i \in 1..(Len(entry.d.question.s) - Len(kw) + 1) :
          SameFolded(SubSeq(entry.d.question.s, i, i + Len(kw) - 1), kw)

\* C18: search_polls_by_question with a non-empty keyword sends exactly one
\* list request, carrying the given skip and limit, and what it returns is
\* the sequence of the polls of that page, in page order, whose question is a
\* string containing the keyword with case ignored; a page is always
\* answered by a return.
C18_SearchFiltersOnePage ==
    SearchDone =>
        /\ sent = <<[method |-> "GET", path |-> "/polls",
                     skip |-> call.skip.n, limit |-> call.limit.n]>>
        /\ Len(resps) = 1
        /\ outcome.t = "value" <=> IsListPage(resps[1])
        /\ outcome.t = "value" =>
              outcome.value =
                  SelectSeq(resps[1].body.val.items,
                            LAMBDA e : QuestionHolds(e, call.keyword.s))

C18_Witness ==
    /\ SearchDone
    /\ call.keyword = StrArg(<<"B">>)
    /\ call.skip = IntArg(1) /\ call.limit = IntArg(2)
    /\ IsListPage(resps[1])
    /\ resps[1].body.val.items = <<PollNumQuestion, PollA>>
    /\ outcome = Return(<<PollA>>)

C18_WitnessNoMatch ==
    /\ SearchDone
    /\ call.keyword = StrArg(<<"c">>)
    /\ IsListPage(resps[1])
    /\ resps[1].body.val.items = <<PollA, PollNoQuestion>>
    /\ outcome = Return(<<>>)

----------------------------------------------------------------------------
(* Properties of the fetch_all_polls guard and of its termination          *)

IntegerBatch == InFetchAll /\ call.batch_size.ty = "int"

\* C19: fetch_all_polls called with an integer batch_size <= 0 or > 100 ends
\* at once with ValueError and no request; with an integer batch_size in
\* 1..100 it goes on to its first list request (skip 0, limit batch_size),
\* which is sent before the call can end.
C19_BatchSizeRange ==
    /\ (IntegerBatch /\ (BatchSize <= 0 \/ BatchSize > 100)) =>
          /\ Raised
          /\ outcome.exc = "ValueError"
          /\ sent = <<>>
          /\ resps = <<>>
    /\ (IntegerBatch /\ BatchSize \in 1..100) =>
          IF sent = <<>>
          THEN /\ pc = "fa_call"
               /\ outcome = NoOutcome
               /\ ENABLED FetchAllPollsSend
          ELSE sent[1] = [method |-> "GET", path |-> "/polls",
                          skip |-> 0, limit |-> BatchSize]

C19_Witness ==
    /\ IntegerBatch
    /\ BatchSize = 100
    /\ Len(sent) = 1
    /\ sent[1].limit = 100
    /\ Returned

C19_WitnessRejected ==
    /\ IntegerBatch
    /\ BatchSize = 101
    /\ Raised /\ outcome.exc = "ValueError"
    /\ sent = <<>>

\* every answer received so far was a page of at least batch_size polls
OnlyFullPages ==
    /\ Len(pages) = Len(resps)
    /\ \A k \in 1..Len(pages) : Len(pages[k]) >= BatchSize

\* C20: fetch_all_polls terminates: whatever finite pages the transport
\* answers with, the call eventually returns or raises.
C20_Terminates == InFetchAll ~> (pc = "done")

\* the run C20 does not allow for: MaxCalls full pages received, offsets
\* 0, batch_size, 2 * batch_size, ... and the loop about to ask again
C20_StillLooping ==
    /\ IntegerBatch
    /\ Len(resps) = MaxCalls
    /\ OnlyFullPages
    /\ pc = "fa_call"
    /\ skip = MaxCalls * BatchSize
    /\ Len(all_polls) >= MaxCalls * BatchSize
    /\ outcome = NoOutcome

----------------------------------------------------------------------------
(* Properties of the errors fetch_all_polls surfaces and of the messages   *)

\* the last answer fetch_all_polls received was not a page
LastCallFailed ==
    /\ InFetchAll
    /\ Len(resps) >= 1
    /\ Len(resps) = Len(sent)
    /\ ~IsListPage(resps[Len(resps)])

\* C21: whenever a list request of fetch_all_polls fails, by a returned
\* Failure, a transport error or a malformed 200 response, the error
\* fetch_all_polls raises names the skip of the request that failed.
C21_ErrorNamesOffset ==
    LastCallFailed =>
        /\ Raised
        /\ outcome.msg.m = "at_skip"
        /\ outcome.msg.skip = sent[Len(sent)].skip

\* the (only) request was answered with a status other than 200 and a body
\* that is not JSON
UnparseableError ==
    /\ call.op \in DetailedOps
    /\ Answered
    /\ resps[1].status # 200
    /\ ~resps[1].body.json

\* C22: for every non-200 status, recognised or not, a body that cannot be
\* parsed as JSON makes the Failure message fall back to the raw response
\* text, cut to its first 200 characters.
C22_UnparseableFallsBackToText ==
    UnparseableError =>
        /\ outcome.t = "return"
        /\ ~outcome.success
        /\ outcome.error_message.m = "http"
        /\ outcome.error_message.tail =
              [t |-> "text", len |-> Min(resps[1].body.len, 200)]

\* the answered status is neither 200 nor one the operation has a message
\* of its own for
OtherStatusError ==
    /\ call.op \in DetailedOps
    /\ Answered
    /\ resps[1].status # 200
    /\ ~RecognisedDomainError

\* the text that opens the message of an unrecognised status, after the
\* status code
StatusBase ==
    CASE call.op = "fetch_polls"      -> "Failed to fetch polls"
      [] call.op = "get_poll_results" -> "Failed to retrieve poll results"
      [] call.op = "register_user"    -> "Unexpected HTTP status code"
      [] call.op = "cast_vote"        -> "Failed to cast vote"

\* C23 as stated: on an unrecognised status the Failure message is the
\* body's detail verbatim when detail is present and a string, and a generic
\* status-based message (nothing of the body in it) otherwise.
C23_Original ==
    OtherStatusError =>
        /\ outcome.t = "return"
        /\ ~outcome.success
        /\ IF HasStringDetail(resps[1].body)
           THEN outcome.error_message = [m |-> "value", v |-> resps[1].body.val.d.detail]
           ELSE /\ outcome.error_message.m = "http"
                /\ outcome.error_message.tail = [t |-> "none"]

\* C23 (amended): on an unrecognised status the Failure message is the
\* generic status-based message (status code and the operation's text),
\* followed by " - " and the detail value when the body is a JSON object
\* holding detail, by " - " and response text when the body is not JSON, and
\* by nothing when the body is JSON without detail.
C23_StatusMessageThenDetail ==
    OtherStatusError =>
        /\ outcome.t = "return"
        /\ ~outcome.success
        /\ outcome.error_message.m = "http"
        /\ outcome.error_message.status = resps[1].status
        /\ outcome.error_message.base = StatusBase
        /\ LET body == resps[1].body
               tail == outcome.error_message.tail
           IN  IF ~body.json THEN tail.t = "text"
               ELSE IF body.val.k = "dict" /\ "detail" \in DOMAIN body.val.d
               THEN tail = [t |-> "detail", v |-> body.val.d.detail]
               ELSE tail = [t |-> "none"]

C23_Witness ==
    /\ call.op = "get_poll_results" /\ OtherStatusError
    /\ resps[1].status = 500
    /\ resps[1].body = JsonBody(JDict([detail |-> JStr(<<"d">>)]))
    /\ outcome.error_message =
          [m |-> "http", base |-> "Failed to retrieve poll results", status |-> 500,
           tail |-> [t |-> "detail", v |-> JStr(<<"d">>)]]

C23_WitnessNoDetail ==
    /\ call.op = "register_user" /\ OtherStatusError
    /\ resps[1].status = 500
    /\ resps[1].body = JsonBody(JDict([other |-> JNull]))
    /\ outcome.error_message.tail = [t |-> "none"]

----------------------------------------------------------------------------
(* Properties of the cast_vote request                                     *)

\* cast_vote (or its simple variant) has sent its request
VoteSent ==
    /\ call.op \in {"cast_vote", "cast_vote_simple"}
    /\ Done
    /\ sent # <<>>

\* r is str without its leading and trailing blanks: a stretch of str with
\* only blanks before and after it that neither starts nor ends with one
IsStripped(r, str) ==
    /\ r = <<>> \/ (r[1] # " " /\ r[Len(r)] # " ")
    /\ \E i \in 1..(Len(str) + 1) :
          /\ i + Len(r) - 1 <= Len(str)
          /\ r = SubSeq(str, i, i + Len(r) - 1)
          /\ \A k \in 1..(i - 1) : str[k] = " "
          /\ \A k \in (i + Len(r))..Len(str) : str[k] = " "

\* C24: the request cast_vote sends carries the header Authorization "Bearer "
\* followed by the access token without its leading and trailing whitespace,
\* and a JSON body holding exactly the requested option_id.
C24_BearerHeaderAndBody ==
    VoteSent =>
        /\ Len(sent) = 1
        /\ sent[1].method = "POST"
        /\ sent[1].poll_id = call.poll_id.n
        /\ sent[1].authorization.scheme = "Bearer"
        /\ IsStripped(sent[1].authorization.token, call.access_token.s)
        /\ sent[1].json = [option_id |-> call.option_id.n]

C24_Witness ==
    /\ VoteSent
    /\ call.access_token = StrArg(<<" ", "t", " ">>)
    /\ sent[1].authorization = [scheme |-> "Bearer", token |-> <<"t">>]
    /\ sent[1].json = [option_id |-> 1]

----------------------------------------------------------------------------
(* Properties of the result objects                                        *)

\* a detailed operation returned a result object
ResultReturned ==
    /\ call.op \in DetailedOps
    /\ Done
    /\ outcome.t = "return"

\* the error message of the result is None
MessageAbsent(msg) ==
    \/ msg = NoMessage
    \/ msg = [m |-> "value", v |-> JNull]

\* the data of the result is None (the empty list for fetch_polls)
DataAbsent == IF call.op = "fetch_polls" THEN outcome.data = <<>> ELSE outcome.data = JNull

\* C25: a returned result is a proper tagged union: with success true the
\* status is 200 and there is no error message; with success false the
\* status is not 200, there is no data and there is an error message.
C25_TaggedUnion ==
    ResultReturned =>
        IF outcome.success
        THEN /\ outcome.status_code = 200
             /\ MessageAbsent(outcome.error_message)
        ELSE /\ outcome.status_code # 200
             /\ DataAbsent
             /\ ~MessageAbsent(outcome.error_message)

----------------------------------------------------------------------------
(* Properties of fetch_all_polls against a paginating backend              *)

\* C26: against a backend that holds N polls and answers a list request with
\* elements [skip, skip + limit), fetch_all_polls with a batch_size in 1..100
\* never raises, and what it returns is the backend's sequence, every poll
\* once and in order, after exactly floor(N / batch_size) + 1 requests: when
\* N is a positive multiple of batch_size the last request is answered by an
\* empty page.
C26_ReturnsWholeBackend ==
    (IntegerBatch /\ BatchSize \in 1..100) =>
        /\ ~Raised
        /\ Returned =>
              /\ outcome.value = backend
              /\ Len(sent) = (Len(backend) \div BatchSize) + 1
              /\ (Len(backend) > 0 /\ Len(backend) % BatchSize = 0) =>
                    pages[Len(pages)] = <<>>

C26_Witness ==
    /\ IntegerBatch /\ Returned
    /\ BatchSize = 2
    /\ Len(backend) = 4
    /\ Len(sent) = 3
    /\ pages[3] = <<>>
    /\ outcome.value = backend

C26_WitnessShortLastPage ==
    /\ IntegerBatch /\ Returned
    /\ BatchSize = 2
    /\ Len(backend) = 5
    /\ Len(sent) = 3
    /\ Len(pages[3]) = 1
    /\ outcome.value = backend

\* the body of answer k is a list of exactly batch_size elements
FullRawPage(k) ==
    /\ IsListPage(resps[k])
    /\ Len(resps[k].body.val.items) = BatchSize

\* C27: whenever the body of a successful page holds batch_size elements,
\* whatever their types, fetch_all_polls goes on to the next list request,
\* at skip + batch_size: validation inside fetch_polls never shortens a page
\* so that pagination ends early.
C27_FullPageAsksAgain ==
    (IntegerBatch /\ BatchSize \in 1..100) =>
        \A k \in 1..Len(resps) :
            FullRawPage(k) =>
                IF k < Len(sent)
                THEN sent[k + 1].skip = sent[k].skip + BatchSize
                ELSE /\ pc = "fa_call"
                     /\ skip = sent[k].skip + BatchSize


\* entry i of the response is a whole option record: an option id, a text
\* and an integer vote_count
OptionRecord(i) ==
    /\ Counted(i)
    /\ "option_id" \in DOMAIN Options[i].d
    /\ "text" \in DOMAIN Options[i].d

\* the results payload is a list of option records
RecordsPayload == HasResultsList /\ \A i \in 1..Len(Options) : OptionRecord(i)

\* a get_poll_winner value w and a statistics winner s designate the same
\* option: both null, or the same position, option id and vote count
SameDesignation(w, s) ==
    IF w = JNull \/ s = JNull
    THEN w = JNull /\ s = JNull
    ELSE /\ w.pos = s.pos
         /\ w.option.d.option_id = s.option_id
         /\ w.option.d.vote_count.n = s.vote_count

C28_WitnessWinnerCall ==
    /\ WinnerReturned /\ RecordsPayload
    /\ Len(Options) = 3
    /\ Votes(1) = 1 /\ Votes(2) = 2 /\ Votes(3) = 2
    /\ outcome.value # JNull
    /\ outcome.value.pos = 2
    /\ get_poll_statistics_of(resps[1].body.val).value.winner.pos = 2

C28_WitnessNoWinner ==
    /\ StatisticsReturned /\ RecordsPayload
    /\ Len(Options) = 2
    /\ Votes(1) = 0 /\ Votes(2) = 0
    /\ outcome.value.winner = JNull
    /\ get_poll_winner_of(resps[1].body.val).value = JNull


\* C29: every request cast_vote sends carries a bearer token that is not
\* empty: for every access token that passes the validation, one made only
\* of whitespace included, the text after "Bearer " is not empty.
C29_BearerTokenNonEmpty ==
    VoteSent =>
        \A k \in 1..Len(sent) :
            /\ sent[k].authorization.scheme = "Bearer"
            /\ sent[k].authorization.token # <<>>


\* the operation returned a Failure whose message quotes raw response text
QuotesRawText ==
    /\ call.op \in DetailedOps
    /\ Done
    /\ outcome.t = "return"
    /\ ~outcome.success
    /\ outcome.error_message.m = "http"
    /\ outcome.error_message.tail.t = "text"

\* C30: in fetch_polls, get_poll_results, register_user and cast_vote the raw
\* response text copied into a Failure message is bounded: whatever the
\* length of the body, at most 200 characters of it appear in the message.
C30_RawTextBounded ==
    QuotesRawText => outcome.error_message.tail.len <= ErrorTextLimit


====
